---------------------------- MODULE Spec2Model ----------------------------
(***************************************************************************)
(* Tic-Tac-Toe (VITyarthi/tic_tac_toe.py): Board, GameLogic, the players   *)
(* (HumanPlayer, AIPlayer with its minimax search), Statistics and the     *)
(* GameController loop.                                                    *)
(*                                                                         *)
(* Python values are represented as follows:                               *)
(*   - a cell is one of the strings " ", "X", "O";                         *)
(*   - a Board object is the record [grid, size], grid[i][j] as in Python; *)
(*   - a Player object is the record [kind, name, symbol, wins];           *)
(*   - None is the string "None", except for a move, where None is the     *)
(*     empty tuple NoMove and a move (i, j) is the tuple <<i, j>>;         *)
(*   - a method that mutates the board it is given returns, besides its    *)
(*     Python result (field ret), the board as it left it (field board);   *)
(*   - the search also reports what it did: the largest depth argument of  *)
(*     the _minimax calls made (field deepest, 0 when none was made) and   *)
(*     whether every _minimax call got a board with fewer empty cells than *)
(*     the board of its caller (field shrinks).                            *)
(***************************************************************************)
EXTENDS Integers, Sequences, FiniteSets, TLC

VARIABLES
    board,            \* GameController.board (the one shared Board object)
    player1,          \* GameController.player1, "None" before setup_game
    player2,          \* GameController.player2
    current_player,   \* GameController.current_player: "None", "player1", "player2"
    stats,            \* GameController.stats.data
    pc,               \* where the program waits: "setup", "turn", "again", "exit"
    call              \* the last method call observed: its arguments and result

vars == <<board, player1, player2, current_player, stats, pc, call>>

----------------------------------------------------------------------------
(* Bounds of the model *)

\* SpecSearch: the search is applied to every grid with at most MaxEmpty empty cells
MaxEmpty == 5

\* Spec: games started in one run of GameController.run
MaxGames == 2

\* SpecBoard: marks placed on the board by make_move before the next reset
MaxMarks == 3

----------------------------------------------------------------------------
(* Board *)

Symbols == {"X", "O"}
Cells == {" ", "X", "O"}
Rng == 0..2

\* Board.__init__ and Board.reset build the same grid
EmptyGrid == [i \in Rng |-> [j \in Rng |-> " "]]

NewBoard == [grid |-> EmptyGrid, size |-> 3]

\* Fault: the range test alone, the cell is not looked at
is_valid_move_in_range(b, row, col) ==
    /\ 0 <= row /\ row < 3
    /\ 0 <= col /\ col < 3

is_valid_move(b, row, col) ==
    /\ 0 <= row /\ row < 3
    /\ 0 <= col /\ col < 3
    /\ b.grid[row][col] = " "

\* the cell assignment board.grid[i][j] = symbol
set_cell(b, i, j, symbol) == [b EXCEPT !.grid[i][j] = symbol]

make_move(b, row, col, symbol) ==
    IF is_valid_move(b, row, col)
    THEN [ret |-> TRUE, board |-> set_cell(b, row, col, symbol)]
    ELSE [ret |-> FALSE, board |-> b]

\* the number of cells of the grid that hold c; the number of empty cells
NumOf(grid, c) == Cardinality({p \in Rng \X Rng : grid[p[1]][p[2]] = c})
NumEmpty(grid) == NumOf(grid, " ")

\* Fault: any() where all() is meant: one mark makes the board full
is_full_any(b) == \E i \in Rng : \E j \in Rng : b.grid[i][j] # " "

is_full(b) == \A i \in Rng : \A j \in Rng : b.grid[i][j] # " "

\* Fault: reset leaves the grid as it is
reset_nothing(b) == b

reset(b) == [b EXCEPT !.grid = EmptyGrid]

----------------------------------------------------------------------------
(* GameLogic *)

\* Fault: the anti-diagonal is not checked
check_winner_no_anti_diagonal(b) ==
    LET grid == b.grid IN
    IF      grid[0][0] = grid[0][1] /\ grid[0][1] = grid[0][2] /\ grid[0][2] # " " THEN grid[0][0]
    ELSE IF grid[1][0] = grid[1][1] /\ grid[1][1] = grid[1][2] /\ grid[1][2] # " " THEN grid[1][0]
    ELSE IF grid[2][0] = grid[2][1] /\ grid[2][1] = grid[2][2] /\ grid[2][2] # " " THEN grid[2][0]
    ELSE IF grid[0][0] = grid[1][0] /\ grid[1][0] = grid[2][0] /\ grid[2][0] # " " THEN grid[0][0]
    ELSE IF grid[0][1] = grid[1][1] /\ grid[1][1] = grid[2][1] /\ grid[2][1] # " " THEN grid[0][1]
    ELSE IF grid[0][2] = grid[1][2] /\ grid[1][2] = grid[2][2] /\ grid[2][2] # " " THEN grid[0][2]
    ELSE IF grid[0][0] = grid[1][1] /\ grid[1][1] = grid[2][2] /\ grid[2][2] # " " THEN grid[0][0]
    ELSE "None"

\* Fault: the test that the line is not blank is missing
check_winner_blank_line(b) ==
    LET grid == b.grid IN
    IF      grid[0][0] = grid[0][1] /\ grid[0][1] = grid[0][2] THEN grid[0][0]
    ELSE IF grid[1][0] = grid[1][1] /\ grid[1][1] = grid[1][2] THEN grid[1][0]
    ELSE IF grid[2][0] = grid[2][1] /\ grid[2][1] = grid[2][2] THEN grid[2][0]
    ELSE IF grid[0][0] = grid[1][0] /\ grid[1][0] = grid[2][0] THEN grid[0][0]
    ELSE IF grid[0][1] = grid[1][1] /\ grid[1][1] = grid[2][1] THEN grid[0][1]
    ELSE IF grid[0][2] = grid[1][2] /\ grid[1][2] = grid[2][2] THEN grid[0][2]
    ELSE IF grid[0][0] = grid[1][1] /\ grid[1][1] = grid[2][2] THEN grid[0][0]
    ELSE IF grid[0][2] = grid[1][1] /\ grid[1][1] = grid[2][0] THEN grid[0][2]
    ELSE "None"

\* Fault: only the rows are checked
check_winner_rows_only(b) ==
    LET grid == b.grid IN
    IF      grid[0][0] = grid[0][1] /\ grid[0][1] = grid[0][2] /\ grid[0][2] # " " THEN grid[0][0]
    ELSE IF grid[1][0] = grid[1][1] /\ grid[1][1] = grid[1][2] /\ grid[1][2] # " " THEN grid[1][0]
    ELSE IF grid[2][0] = grid[2][1] /\ grid[2][1] = grid[2][2] /\ grid[2][2] # " " THEN grid[2][0]
    ELSE "None"

check_winner(b) ==
    LET grid == b.grid IN
    IF      grid[0][0] = grid[0][1] /\ grid[0][1] = grid[0][2] /\ grid[0][2] # " " THEN grid[0][0]
    ELSE IF grid[1][0] = grid[1][1] /\ grid[1][1] = grid[1][2] /\ grid[1][2] # " " THEN grid[1][0]
    ELSE IF grid[2][0] = grid[2][1] /\ grid[2][1] = grid[2][2] /\ grid[2][2] # " " THEN grid[2][0]
    ELSE IF grid[0][0] = grid[1][0] /\ grid[1][0] = grid[2][0] /\ grid[2][0] # " " THEN grid[0][0]
    ELSE IF grid[0][1] = grid[1][1] /\ grid[1][1] = grid[2][1] /\ grid[2][1] # " " THEN grid[0][1]
    ELSE IF grid[0][2] = grid[1][2] /\ grid[1][2] = grid[2][2] /\ grid[2][2] # " " THEN grid[0][2]
    ELSE IF grid[0][0] = grid[1][1] /\ grid[1][1] = grid[2][2] /\ grid[2][2] # " " THEN grid[0][0]
    ELSE IF grid[0][2] = grid[1][1] /\ grid[1][1] = grid[2][0] /\ grid[2][0] # " " THEN grid[0][2]
    ELSE "None"

\* Fault: the full board is tested before the winner
is_game_over_full_first(b) ==
    LET winner == check_winner(b) IN
    IF is_full(b) THEN <<TRUE, "Draw">>
    ELSE IF winner # "None" THEN <<TRUE, winner>>
    ELSE <<FALSE, "None">>

\* Fault: a full board without a winner does not end the game
is_game_over_no_draw(b) ==
    LET winner == check_winner(b) IN
    IF winner # "None" THEN <<TRUE, winner>>
    ELSE <<FALSE, "None">>

\* returns the pair (is_over, winner_or_draw)
is_game_over(b) ==
    LET winner == check_winner(b) IN
    IF winner # "None" THEN <<TRUE, winner>>
    ELSE IF is_full(b) THEN <<TRUE, "Draw">>
    ELSE <<FALSE, "None">>

----------------------------------------------------------------------------
(* Players *)

Player(kind, name, symbol) ==
    [kind |-> kind, name |-> name, symbol |-> symbol, wins |-> 0]

\* GameController.__init__ leaves both players and current_player None
NoPlayer == [kind |-> "None"]

NoMove == <<>>

\* float('-inf') and float('inf'): below and above every score in -10..10
NegInf == -1000
PosInf == 1000

\* Faults: the minimizing level takes the larger score; the maximizing level
\* takes the smaller one
min_as_max(a, b) == IF b > a THEN b ELSE a
max_as_min(a, b) == IF b < a THEN b ELSE a

max(a, b) == IF b > a THEN b ELSE a
min(a, b) == IF b < a THEN b ELSE a

\* Fault: the hypothetical placement is left on the board
undo_nothing(b, i, j) == b

\* the hypothetical placement of the search and its undoing
place(b, i, j, symbol) == set_cell(b, i, j, symbol)
undo(b, i, j) == set_cell(b, i, j, " ")

\* Faults: a later win scores higher; a loss scores the same at every depth
win_score_late(depth) == 10 + depth
loss_score_flat(depth) == 0 - 10

\* Fault: a win scores the same at every depth
win_score_flat(depth) == 10 + 0 * depth

\* the scores of a decided position: a win and a loss of the searching side
win_score(depth) == 10 - depth
loss_score(depth) == depth - 10

\* The passes of a loop, evaluated first to last; the value is that of the
\* last pass.
in_order(passes) == passes[Len(passes)]

\* Fault: the depth grows by two with every level
next_depth_by_two(depth) == depth + 2

\* the depth argument of the recursive calls of _minimax
next_depth(depth) == depth + 1

\* the board a call is made on has fewer empty cells than the caller's board
fewer_empty(callee, caller) == NumEmpty(callee.grid) < NumEmpty(caller.grid)

\* What a pass of the loops of _minimax at cell (i, j) does once the recursive
\* call on the board `placed` has returned r: line 163 or 173, then 164 or 174.
minimax_returned(acc, r, is_max, i, j, placed) ==
    [best    |-> IF is_max THEN max(acc.best, r.ret) ELSE min(acc.best, r.ret),
     board   |-> undo(r.board, i, j),
     deepest |-> max(acc.deepest, r.deepest),
     shrinks |-> acc.shrinks /\ r.shrinks /\ fewer_empty(placed, acc.board)]

RECURSIVE _minimax(_, _, _, _)

\* One pass through the body of the loops of _minimax at cell (i, j); acc holds
\* the local `best` and the board as the previous passes left it.
minimax_step(self, acc, depth, is_max, i, j) ==
    IF acc.board.grid[i][j] = " "
    THEN LET opponent == IF self.symbol = "X" THEN "O" ELSE "X"
             placed == place(acc.board, i, j, IF is_max THEN self.symbol ELSE opponent)
         IN minimax_returned(acc, _minimax(self, placed, next_depth(depth), ~is_max),
                             is_max, i, j, placed)
    ELSE acc

_minimax(self, b, depth, is_max) ==
    LET winner == check_winner(b) IN
    IF winner = self.symbol
    THEN [ret |-> win_score(depth), board |-> b, deepest |-> depth, shrinks |-> TRUE]
    ELSE IF winner # "None"
    THEN [ret |-> loss_score(depth), board |-> b, deepest |-> depth, shrinks |-> TRUE]
    ELSE IF is_full(b)
    THEN [ret |-> 0, board |-> b, deepest |-> depth, shrinks |-> TRUE]
    ELSE LET a0 == [best |-> IF is_max THEN NegInf ELSE PosInf, board |-> b,
                    deepest |-> depth, shrinks |-> TRUE]
             a1 == minimax_step(self, a0, depth, is_max, 0, 0)
             a2 == minimax_step(self, a1, depth, is_max, 0, 1)
             a3 == minimax_step(self, a2, depth, is_max, 0, 2)
             a4 == minimax_step(self, a3, depth, is_max, 1, 0)
             a5 == minimax_step(self, a4, depth, is_max, 1, 1)
             a6 == minimax_step(self, a5, depth, is_max, 1, 2)
             a7 == minimax_step(self, a6, depth, is_max, 2, 0)
             a8 == minimax_step(self, a7, depth, is_max, 2, 1)
             a9 == minimax_step(self, a8, depth, is_max, 2, 2)
             done == in_order(<<a1, a2, a3, a4, a5, a6, a7, a8, a9>>)
         IN [ret |-> done.best, board |-> done.board,
             deepest |-> done.deepest, shrinks |-> done.shrinks]

\* Fault: a later move with an equal score replaces the best move
improves_or_equal(score, best_score) == score >= best_score

\* the test of AIPlayer.get_move that replaces the best move found so far
improves(score, best_score) == score > best_score

\* What the body of the loops of AIPlayer.get_move does at cell (i, j) once
\* _minimax, called on the board `placed`, has returned r: lines 137-141.
get_move_returned(acc, r, i, j, placed) ==
    [best_score |-> IF improves(r.ret, acc.best_score) THEN r.ret ELSE acc.best_score,
     best_move  |-> IF improves(r.ret, acc.best_score) THEN <<i, j>> ELSE acc.best_move,
     board      |-> undo(r.board, i, j),
     deepest    |-> max(acc.deepest, r.deepest),
     shrinks    |-> acc.shrinks /\ r.shrinks /\ fewer_empty(placed, acc.board)]

\* The body of the loops of AIPlayer.get_move at an empty cell (i, j); acc holds
\* the locals best_score and best_move and the board as it is now.
get_move_step(self, acc, i, j) ==
    LET placed == place(acc.board, i, j, self.symbol)
    IN get_move_returned(acc, _minimax(self, placed, 0, FALSE), i, j, placed)

\* The loops of AIPlayer.get_move from cell k on, k = 3*i + j: row 0, 1, 2 and
\* in each row column 0, 1, 2.
RECURSIVE get_move_loop(_, _, _)
get_move_loop(self, acc, k) ==
    IF k = 9 THEN acc
    ELSE IF acc.board.grid[k \div 3][k % 3] = " "
         THEN get_move_loop(self, get_move_step(self, acc, k \div 3, k % 3), k + 1)
         ELSE get_move_loop(self, acc, k + 1)

\* Fault: the best score starts at 0, so no move with a score of 0 or less is kept
get_move_from_zero(self, b) ==
    LET done == get_move_loop(self, [best_score |-> 0, best_move |-> NoMove, board |-> b,
                                     deepest |-> 0, shrinks |-> TRUE], 0)
    IN [ret |-> done.best_move, board |-> done.board,
        deepest |-> done.deepest, shrinks |-> done.shrinks]

\* AIPlayer.get_move
get_move(self, b) ==
    LET done == get_move_loop(self, [best_score |-> NegInf, best_move |-> NoMove, board |-> b,
                                     deepest |-> 0, shrinks |-> TRUE], 0)
    IN [ret |-> done.best_move, board |-> done.board,
        deepest |-> done.deepest, shrinks |-> done.shrinks]

----------------------------------------------------------------------------
(* Statistics *)

\* Statistics._load when there is no file yet
NoStats == [games |-> 0, x_wins |-> 0, o_wins |-> 0, draws |-> 0]

\* Fault: the branch for 'Draw' is missing
update_draw_uncounted(data, result) ==
    LET d == [data EXCEPT !.games = @ + 1] IN
    IF result = "X" THEN [d EXCEPT !.x_wins = @ + 1]
    ELSE IF result = "O" THEN [d EXCEPT !.o_wins = @ + 1]
    ELSE d

\* Statistics.update (save() writes the record out and changes nothing here)
update(data, result) ==
    LET d == [data EXCEPT !.games = @ + 1] IN
    IF result = "X" THEN [d EXCEPT !.x_wins = @ + 1]
    ELSE IF result = "O" THEN [d EXCEPT !.o_wins = @ + 1]
    ELSE IF result = "Draw" THEN [d EXCEPT !.draws = @ + 1]
    ELSE d

----------------------------------------------------------------------------
(* GameController *)

\* no call observed yet
NoCall == [op |-> "none"]

Current == IF current_player = "player1" THEN player1 ELSE player2

\* Fault: the comparison is with player2, so the player to move stays player1
switch_player_stays(cp) == IF cp = "player2" THEN "player2" ELSE "player1"

\* GameController.switch_player
switch_player(cp) == IF cp = "player1" THEN "player2" ELSE "player1"

\* what a human may type for a row or a column: in range and out of range
InputCoords == -1..3

Init ==
    /\ board = NewBoard
    /\ stats = NoStats
    /\ player1 = NoPlayer
    /\ player2 = NoPlayer
    /\ current_player = "None"
    /\ pc = "setup"
    /\ call = NoCall

\* play_game, lines 290-291: the board is reset and player1 is to move
StartGame(p1, p2) ==
    /\ player1' = p1
    /\ player2' = p2
    /\ board' = reset(board)
    /\ current_player' = "player1"
    /\ pc' = "turn"
    /\ UNCHANGED <<stats, call>>

\* setup_game with the option typed, and on a True result the start of play_game
SetupGame ==
    /\ pc = "setup"
    /\ \E choice \in {"1", "2", "3", "4", "other"} :
         IF choice = "1"
         THEN /\ stats.games < MaxGames
              /\ StartGame(Player("Human", "Player 1", "X"), Player("Human", "Player 2", "O"))
         ELSE IF choice = "2"
         THEN /\ stats.games < MaxGames
              /\ StartGame(Player("Human", "Player", "X"), Player("AI", "AI", "O"))
         ELSE IF choice = "4"
         THEN /\ pc' = "exit"
              /\ UNCHANGED <<board, player1, player2, current_player, stats, call>>
         ELSE UNCHANGED vars

\* play_game, lines 295-310, after play_turn returned True with board b
AfterMove(b, got) ==
    \E over \in {is_game_over(b)}, result \in {is_game_over(b)[2]} :
       /\ board' = b
       /\ call' = [op |-> "get_move", self |-> Current, pre |-> board, ret |-> got.ret,
                   deepest |-> got.deepest, shrinks |-> got.shrinks]
       /\ IF over[1]
          THEN /\ IF result = "Draw"
                  THEN UNCHANGED <<player1, player2>>
                  ELSE IF result = player1.symbol
                       THEN /\ player1' = [player1 EXCEPT !.wins = @ + 1]
                            /\ UNCHANGED player2
                       ELSE /\ player2' = [player2 EXCEPT !.wins = @ + 1]
                            /\ UNCHANGED player1
               /\ stats' = update(stats, result)
               /\ pc' = "again"
               /\ UNCHANGED current_player
          ELSE /\ current_player' = switch_player(current_player)
               /\ UNCHANGED <<player1, player2, stats, pc>>

\* what HumanPlayer.get_move returns for a valid input: the move, no search made
human_move(row, col) == [ret |-> <<row, col>>, deepest |-> 0, shrinks |-> TRUE]

\* One turn of a HumanPlayer: get_move asks again until the input is a valid
\* move, then play_turn places it.
HumanTurn ==
    /\ pc = "turn"
    /\ Current.kind = "Human"
    /\ \E row \in InputCoords, col \in InputCoords :
         IF is_valid_move(board, row, col)
         THEN \E m \in {make_move(board, row, col, Current.symbol)} :
                 IF m.ret THEN AfterMove(m.board, human_move(row, col)) ELSE UNCHANGED vars
         ELSE UNCHANGED vars

\* One turn of the AIPlayer.  A move of None cannot be unpacked by play_turn:
\* the TypeError ends run().
AITurn ==
    /\ pc = "turn"
    /\ Current.kind = "AI"
    /\ \E r \in {get_move(Current, board)} :
          IF r.ret = NoMove
          THEN /\ pc' = "exit"
               /\ board' = r.board
               /\ UNCHANGED <<player1, player2, current_player, stats, call>>
          ELSE \E m \in {make_move(r.board, r.ret[1], r.ret[2], Current.symbol)} :
                  IF m.ret THEN AfterMove(m.board, r)
                  ELSE /\ board' = m.board
                       /\ UNCHANGED <<player1, player2, current_player, stats, pc, call>>

\* run, lines 326-330: the answer to "Play again?"
PlayAgain ==
    /\ pc = "again"
    /\ \E answer \in {"y", "n"} :
         pc' = IF answer = "y" THEN "setup" ELSE "exit"
    /\ UNCHANGED <<board, player1, player2, current_player, stats, call>>

\* Ctrl-C at a prompt ends run()
KeyboardInterrupt ==
    /\ \/ pc \in {"setup", "again"}
       \/ pc = "turn" /\ Current.kind = "Human"
    /\ pc' = "exit"
    /\ UNCHANGED <<board, player1, player2, current_player, stats, call>>

Next == SetupGame \/ HumanTurn \/ AITurn \/ PlayAgain \/ KeyboardInterrupt

Spec == Init /\ [][Next]_vars

----------------------------------------------------------------------------
(* SpecPlay: one game of play_game between any two players, each a         *)
(* HumanPlayer or an AIPlayer; an AIPlayer's turn needs no input and is     *)
(* always taken.                                                            *)

PlayerKinds == {"Human", "AI"}

InitPlay ==
    /\ board = reset(NewBoard)
    /\ stats = NoStats
    /\ \E k1 \in PlayerKinds : player1 = Player(k1, "Player 1", "X")
    /\ \E k2 \in PlayerKinds : player2 = Player(k2, "Player 2", "O")
    /\ current_player = "player1"
    /\ pc = "turn"
    /\ call = NoCall

NextPlay == HumanTurn \/ AITurn

\* an AIPlayer is to move: AITurn is enabled
AIToMove == pc = "turn" /\ Current.kind = "AI"

\* WF_vars(AITurn) with ENABLED <<AITurn>>_vars written out as AIToMove: the
\* turn of an AIPlayer waits for no input, so it does not stay pending forever
AITurnTaken == []<>(~AIToMove) \/ []<><<AITurn>>_vars

SpecPlay == InitPlay /\ [][NextPlay]_vars /\ AITurnTaken

\* SpecPlayFair: SpecPlay where, besides, a HumanPlayer to move eventually
\* types a valid move (the steps of HumanTurn that change the state).
SpecPlayFair == SpecPlay /\ WF_vars(HumanTurn)

----------------------------------------------------------------------------
(* Helpers of the properties *)

AllGrids == [Rng -> [Rng -> Cells]]

----------------------------------------------------------------------------
(* SpecSearch: the search applied to a given board.  The board is any grid  *)
(* with at most MaxEmpty empty cells; the searching player is an AIPlayer   *)
(* with either symbol.                                                      *)

InitSearch ==
    /\ board \in {[grid |-> g, size |-> 3] : g \in {h \in AllGrids : NumEmpty(h) <= MaxEmpty}}
    /\ player1 = Player("AI", "AI", "X")
    /\ player2 = Player("AI", "AI", "O")
    /\ current_player \in {"player1", "player2"}
    /\ stats = NoStats
    /\ pc = "search"
    /\ call = NoCall

Call_get_move ==
    /\ pc = "search"
    /\ call.op = "none"
    /\ \E r \in {get_move(Current, board)} :
          /\ call' = [op |-> "get_move", self |-> Current, pre |-> board, ret |-> r.ret,
                      deepest |-> r.deepest, shrinks |-> r.shrinks]
          /\ board' = r.board
    /\ UNCHANGED <<player1, player2, current_player, stats, pc>>

\* _minimax as the search calls it: the maximizing flag is False at depth 0 and
\* flips with every level
Call_minimax ==
    /\ pc = "search"
    /\ call.op = "none"
    /\ \E depth \in 0..1 :
         \E r \in {_minimax(Current, board, depth, depth = 1)} :
            /\ call' = [op |-> "_minimax", self |-> Current, pre |-> board,
                        depth |-> depth, is_max |-> (depth = 1), ret |-> r.ret,
                        deepest |-> r.deepest, shrinks |-> r.shrinks]
            /\ board' = r.board
    /\ UNCHANGED <<player1, player2, current_player, stats, pc>>

NextSearch == Call_get_move \/ Call_minimax

SpecSearch == InitSearch /\ [][NextSearch]_vars

----------------------------------------------------------------------------
(* SpecBoard: a Board object used through make_move and reset with any      *)
(* arguments, from the empty board.                                         *)

InitBoard ==
    /\ board = NewBoard
    /\ player1 = NoPlayer
    /\ player2 = NoPlayer
    /\ current_player = "None"
    /\ stats = NoStats
    /\ pc = "board"
    /\ call = NoCall

Call_make_move ==
    /\ pc = "board"
    /\ 9 - NumEmpty(board.grid) < MaxMarks
    /\ \E row \in InputCoords, col \in InputCoords, symbol \in Symbols :
         \E m \in {make_move(board, row, col, symbol)} :
            /\ call' = [op |-> "make_move", row |-> row, col |-> col,
                        symbol |-> symbol, pre |-> board, ret |-> m.ret]
            /\ board' = m.board
    /\ UNCHANGED <<player1, player2, current_player, stats, pc>>

Call_reset ==
    /\ pc = "board"
    /\ call' = [op |-> "reset", pre |-> board]
    /\ board' = reset(board)
    /\ UNCHANGED <<player1, player2, current_player, stats, pc>>

NextBoard == Call_make_move \/ Call_reset

SpecBoard == InitBoard /\ [][NextBoard]_vars

----------------------------------------------------------------------------
(* SpecLogic: GameLogic applied to a given board, any of the 3^9 grids.     *)

InitLogic ==
    /\ board \in {[grid |-> g, size |-> 3] : g \in AllGrids}
    /\ player1 = NoPlayer
    /\ player2 = NoPlayer
    /\ current_player = "None"
    /\ stats = NoStats
    /\ pc = "logic"
    /\ call = NoCall

Call_check_winner ==
    /\ pc = "logic"
    /\ call.op = "none"
    /\ call' = [op |-> "check_winner", pre |-> board, ret |-> check_winner(board)]
    /\ UNCHANGED <<board, player1, player2, current_player, stats, pc>>

Call_is_game_over ==
    /\ pc = "logic"
    /\ call.op = "none"
    /\ call' = [op |-> "is_game_over", pre |-> board, ret |-> is_game_over(board)]
    /\ UNCHANGED <<board, player1, player2, current_player, stats, pc>>

NextLogic == Call_check_winner \/ Call_is_game_over

SpecLogic == InitLogic /\ [][NextLogic]_vars

----------------------------------------------------------------------------
(* Properties *)

At(grid, c) == grid[c[1]][c[2]]
With(grid, c, s) == [grid EXCEPT ![c[1]][c[2]] = s]
Other(s) == IF s = "X" THEN "O" ELSE "X"

\* the eight lines of the grid, each the set of its three cells
Lines ==
    {{<<i, j>> : j \in Rng} : i \in Rng} \cup {{<<i, j>> : i \in Rng} : j \in Rng}
    \cup {{<<i, i>> : i \in Rng}, {<<i, 2 - i>> : i \in Rng}}

HasLine(grid, s) == \E l \in Lines : \A c \in l : At(grid, c) = s
EmptyCells(grid) == {c \in Rng \X Rng : At(grid, c) = " "}

\* at least one empty cell and no completed line
Playable(b) ==
    EmptyCells(b.grid) # {} /\ ~HasLine(b.grid, "X") /\ ~HasLine(b.grid, "O")

IsMove(m) == Len(m) = 2 /\ m[1] \in Rng /\ m[2] \in Rng

\* position of a cell in the row-major scan
ScanIndex(c) == 3 * c[1] + c[2]

SetMax(S) == CHOOSE x \in S : \A y \in S : y <= x
SetMin(S) == CHOOSE x \in S : \A y \in S : x <= y

\* The game-theoretic outcome for s of the grid with `mover` to move, both sides
\* playing their best: 1 a win of s, 0 a draw, -1 a loss of s.
RECURSIVE Outcome(_, _, _)
Outcome(grid, mover, s) ==
    IF HasLine(grid, s) THEN 1
    ELSE IF HasLine(grid, Other(s)) THEN -1
    ELSE IF EmptyCells(grid) = {} THEN 0
    ELSE LET after == {Outcome(With(grid, c, mover), Other(mover), s) : c \in EmptyCells(grid)}
         IN IF mover = s THEN SetMax(after) ELSE SetMin(after)

\* the outcome for s once s has played cell c
OutcomeAfter(grid, c, s) == Outcome(With(grid, c, s), Other(s), s)

\* cell c completes a line of s
Wins(grid, c, s) == At(grid, c) = " " /\ HasLine(With(grid, c, s), s)

\* the lines s completes with one more mark: two of s and one empty cell
Threats(grid, s) ==
    {l \in Lines : /\ Cardinality({c \in l : At(grid, c) = s}) = 2
                   /\ Cardinality({c \in l : At(grid, c) = " "}) = 1}

\* a get_move call on a playable board has been observed
PlayableSearch == call.op = "get_move" /\ Playable(call.pre)

\* C1: on every board with an empty cell and no completed line, for either
\* symbol, get_move returns (row, col) with row and col in 0..2 and the cell
\* empty on the board passed in.
C1_MoveIsEmptyCell ==
    PlayableSearch => IsMove(call.ret) /\ At(call.pre.grid, call.ret) = " "

C1_Witness ==
    /\ PlayableSearch
    /\ NumEmpty(call.pre.grid) = MaxEmpty
    /\ call.self.symbol = "O"
    /\ call.ret = <<2, 1>>
    /\ At(call.pre.grid, <<2, 1>>) = " "

\* C2: on every non-terminal board the outcome, under best play of both sides,
\* after the move get_move returns is at least as good for the searching symbol
\* as the outcome after any other legal move.
C2_MoveIsOptimal ==
    PlayableSearch =>
        /\ IsMove(call.ret)
        /\ \A c \in EmptyCells(call.pre.grid) :
              OutcomeAfter(call.pre.grid, call.ret, call.self.symbol)
                  >= OutcomeAfter(call.pre.grid, c, call.self.symbol)

\* the returned move saves the draw where another move loses
C2_Witness ==
    /\ PlayableSearch
    /\ IsMove(call.ret)
    /\ NumEmpty(call.pre.grid) = MaxEmpty
    /\ OutcomeAfter(call.pre.grid, call.ret, call.self.symbol) = 0
    /\ \E c \in EmptyCells(call.pre.grid) :
          OutcomeAfter(call.pre.grid, c, call.self.symbol) = -1

\* X at (0,0), (0,1) and O at (1,0), (1,1)
RowExample ==
    [i \in Rng |-> [j \in Rng |->
        IF i = 0 /\ j < 2 THEN "X" ELSE IF i = 1 /\ j < 2 THEN "O" ELSE " "]]

\* C3: on a non-terminal board where some empty cell completes a line of the
\* searching symbol, get_move returns a cell that completes a line of it; on
\* the board with X at (0,0), (0,1) and O at (1,0), (1,1) it returns (0, 2) for X.
C3_TakesImmediateWin ==
    /\ PlayableSearch /\ (\E c \in Rng \X Rng : Wins(call.pre.grid, c, call.self.symbol))
          => IsMove(call.ret) /\ Wins(call.pre.grid, call.ret, call.self.symbol)
    /\ call.op = "get_move" /\ call.pre.grid = RowExample /\ call.self.symbol = "X"
          => call.ret = <<0, 2>>

C3_Witness ==
    /\ call.op = "get_move"
    /\ call.pre.grid = RowExample
    /\ call.self.symbol = "X"
    /\ call.ret = <<0, 2>>

\* the searching symbol has no winning cell and the opponent threatens one line
OneThreat ==
    /\ PlayableSearch
    /\ \A c \in Rng \X Rng : ~Wins(call.pre.grid, c, call.self.symbol)
    /\ Cardinality(Threats(call.pre.grid, Other(call.self.symbol))) = 1

\* C4: on a non-terminal board where the searching symbol has no immediately
\* winning cell and the opponent has exactly one line it could complete on its
\* next turn, get_move returns the empty cell of that line.
C4_BlocksOnlyThreat ==
    OneThreat =>
        /\ IsMove(call.ret)
        /\ At(call.pre.grid, call.ret) = " "
        /\ \A l \in Threats(call.pre.grid, Other(call.self.symbol)) : call.ret \in l

\* a block that is not the first empty cell of the scan
C4_Witness ==
    /\ OneThreat
    /\ NumEmpty(call.pre.grid) = MaxEmpty
    /\ \A l \in Threats(call.pre.grid, Other(call.self.symbol)) : call.ret \in l
    /\ \E c \in EmptyCells(call.pre.grid) : ScanIndex(c) < ScanIndex(call.ret)

\* both players of the game are AIPlayers: X and O each play the move get_move
\* returns for their own symbol
SelfPlay == player1.kind = "AI" /\ player2.kind = "AI"

\* the game is over with the board full and no line completed
EndedInDraw ==
    /\ pc = "again"
    /\ EmptyCells(board.grid) = {}
    /\ ~HasLine(board.grid, "X")
    /\ ~HasLine(board.grid, "O")

\* C5: from the empty board, X and O alternating, X first, each playing the
\* move get_move returns for its symbol, the game terminates and ends in a Draw.
C5_SelfPlayEndsInDraw == SelfPlay ~> EndedInDraw

C5_Witness == SelfPlay /\ EndedInDraw /\ stats.draws = 1

\* a game of Player vs AI is over
PvAIOver == pc = "again" /\ player1.kind = "Human" /\ player2.kind = "AI"

\* C6: in Player vs AI (the human plays X and moves first, the AIPlayer plays
\* O), whatever legal moves the human makes, no finished game is won by X:
\* it is a win of O or a Draw.
C6_HumanXNeverWins ==
    PvAIOver =>
        /\ ~HasLine(board.grid, "X")
        /\ player1.wins = 0
        /\ HasLine(board.grid, "O") \/ EmptyCells(board.grid) = {}

\* a game the AIPlayer won, and the win counted
C6_Witness ==
    /\ PvAIOver
    /\ HasLine(board.grid, "O")
    /\ player2.wins = 1
    /\ stats.o_wins = 1

\* C7: when get_move returns, each of the nine cells holds the value it held
\* when get_move was called, and every call of _minimax returns with the board
\* equal to the board at the moment of the call.
C7_BoardRestored ==
    call.op \in {"get_move", "_minimax"} => board = call.pre

\* the search went through placements on a board with MaxEmpty empty cells
C7_Witness ==
    /\ call.op = "_minimax"
    /\ call.depth = 1
    /\ Playable(call.pre)
    /\ NumEmpty(call.pre.grid) = MaxEmpty
    /\ board = call.pre

\* the score get_move computes for the cell with scan index k of grid, or
\* NoScore for an occupied cell
NoScore == NegInf
ScoreOf(self, b, k) ==
    IF b.grid[k \div 3][k % 3] = " "
    THEN _minimax(self, place(b, k \div 3, k % 3, self.symbol), 0, FALSE).ret
    ELSE NoScore

\* the scores of the nine cells in scan order
Scores(self, b) ==
    <<ScoreOf(self, b, 0), ScoreOf(self, b, 1), ScoreOf(self, b, 2),
      ScoreOf(self, b, 3), ScoreOf(self, b, 4), ScoreOf(self, b, 5),
      ScoreOf(self, b, 6), ScoreOf(self, b, 7), ScoreOf(self, b, 8)>>

\* m is the first cell of the scan whose score is the maximum of the scores
FirstOfBest(m, scores, grid) ==
    /\ IsMove(m)
    /\ At(grid, m) = " "
    /\ \A c \in EmptyCells(grid) :
          /\ scores[ScanIndex(c) + 1] <= scores[ScanIndex(m) + 1]
          /\ scores[ScanIndex(c) + 1] = scores[ScanIndex(m) + 1]
                => ScanIndex(m) <= ScanIndex(c)

\* C8: get_move returns, among the empty cells whose minimax score is the
\* maximum over all empty cells, the first one in row-major order; a second
\* invocation on an equal board with the same symbol returns the same move.
C8_FirstBestInScanOrder ==
    PlayableSearch =>
        /\ \E scores \in {Scores(call.self, call.pre)} :
              FirstOfBest(call.ret, scores, call.pre.grid)
        /\ get_move(call.self, call.pre).ret = call.ret

\* a tie: a later cell has the same score as the returned one
C8_Witness ==
    /\ PlayableSearch
    /\ NumEmpty(call.pre.grid) = MaxEmpty
    /\ IsMove(call.ret)
    /\ \E c \in EmptyCells(call.pre.grid) :
          /\ ScanIndex(c) > ScanIndex(call.ret)
          /\ ScoreOf(call.self, call.pre, ScanIndex(c))
                = ScoreOf(call.self, call.pre, ScanIndex(call.ret))

\* C9: get_move on a board with no empty cell or with a completed line fails
\* fast: it does not return, neither the sentinel None nor a move.
C9_FailsFast ==
    call.op = "get_move" /\ ~Playable(call.pre)
        => call.ret # NoMove /\ ~IsMove(call.ret)

\* C10: make_move(row, col, symbol) with row and col in 0..2 and the cell empty
\* sets that cell to symbol, leaves the other eight cells as they were and
\* returns True; otherwise (occupied cell, or row or col out of range, negative
\* values included) it returns False and leaves all nine cells as they were.
C10_MakeMove ==
    call.op = "make_move" =>
        IF call.row \in Rng /\ call.col \in Rng /\ call.pre.grid[call.row][call.col] = " "
        THEN /\ call.ret = TRUE
             /\ board.grid[call.row][call.col] = call.symbol
             /\ \A c \in Rng \X Rng :
                   c # <<call.row, call.col>> => At(board.grid, c) = At(call.pre.grid, c)
        ELSE /\ call.ret = FALSE
             /\ board = call.pre

\* make_move(1, 1, "O") after make_move(1, 1, "X") on the empty board
C10_Witness ==
    /\ call.op = "make_move"
    /\ call.pre.grid = With(EmptyGrid, <<1, 1>>, "X")
    /\ call.row = 1 /\ call.col = 1 /\ call.symbol = "O"
    /\ call.ret = FALSE
    /\ board.grid[1][1] = "X"

\* some line of the grid holds three equal marks
AnyLine(grid) == HasLine(grid, "X") \/ HasLine(grid, "O")

\* C11: is_game_over returns (True, 'X') or (True, 'O') whenever check_winner
\* yields X or O, a full board included; (True, 'Draw') exactly when the board
\* is full and no line is complete; (False, None) exactly when there is an
\* empty cell and no line is complete.
C11_IsGameOver ==
    call.op = "is_game_over" =>
        /\ check_winner(call.pre) \in Symbols
              => call.ret = <<TRUE, check_winner(call.pre)>> /\ AnyLine(call.pre.grid)
        /\ call.ret = <<TRUE, "Draw">>
              <=> EmptyCells(call.pre.grid) = {} /\ ~AnyLine(call.pre.grid)
        /\ call.ret = <<FALSE, "None">>
              <=> EmptyCells(call.pre.grid) # {} /\ ~AnyLine(call.pre.grid)
        /\ AnyLine(call.pre.grid) => call.ret[1] /\ HasLine(call.pre.grid, call.ret[2])

\* a full board with a completed line is a win
C11_Witness ==
    /\ call.op = "is_game_over"
    /\ EmptyCells(call.pre.grid) = {}
    /\ HasLine(call.pre.grid, "X")
    /\ NumOf(call.pre.grid, "X") = 5
    /\ call.ret = <<TRUE, "X">>

\* the eight lines in the order check_winner examines them: rows 0-2,
\* columns 0-2, main diagonal, anti-diagonal
LineOrder ==
    << {<<0, 0>>, <<0, 1>>, <<0, 2>>}, {<<1, 0>>, <<1, 1>>, <<1, 2>>},
       {<<2, 0>>, <<2, 1>>, <<2, 2>>}, {<<0, 0>>, <<1, 0>>, <<2, 0>>},
       {<<0, 1>>, <<1, 1>>, <<2, 1>>}, {<<0, 2>>, <<1, 2>>, <<2, 2>>},
       {<<0, 0>>, <<1, 1>>, <<2, 2>>}, {<<0, 2>>, <<1, 1>>, <<2, 0>>} >>

\* line k of LineOrder holds three equal marks of s
Complete(grid, k, s) == \A c \in LineOrder[k] : At(grid, c) = s

XTopRow == [i \in Rng |-> [j \in Rng |-> IF i = 0 THEN "X" ELSE " "]]
FullNoLine ==
    [i \in Rng |-> [j \in Rng |-> IF (i < 2 /\ (i + j) % 2 = 0) \/ (i = 2 /\ j = 1) THEN "X" ELSE "O"]]

\* C12: for every grid over {Empty, X, O}, check_winner returns None iff none
\* of the 8 lines consists of three equal non-empty cells, and otherwise the
\* symbol of the first complete line in the order rows 0-2, columns 0-2, main
\* diagonal, anti-diagonal; it returns X on [[X,X,X],[_,_,_],[_,_,_]] and None
\* on [[X,O,X],[O,X,O],[O,X,O]].
C12_CheckWinner ==
    call.op = "check_winner" =>
        /\ call.ret = "None" <=> ~AnyLine(call.pre.grid)
        /\ call.ret # "None" =>
              /\ call.ret \in Symbols
              /\ \E k \in 1..8 :
                    /\ Complete(call.pre.grid, k, call.ret)
                    /\ \A h \in 1..(k - 1) : \A s \in Symbols : ~Complete(call.pre.grid, h, s)
        /\ call.pre.grid = XTopRow => call.ret = "X"
        /\ call.pre.grid = FullNoLine => call.ret = "None"

\* two complete lines of different symbols: the first one in the order decides
C12_Witness ==
    /\ call.op = "check_winner"
    /\ Complete(call.pre.grid, 2, "O")
    /\ Complete(call.pre.grid, 3, "X")
    /\ call.ret = "O"

\* the number of X cells minus the number of O cells
Lead(grid) == NumOf(grid, "X") - NumOf(grid, "O")

\* C13: in every board state reachable in a game run by play_game, the number
\* of X cells equals the number of O cells when X is to move and is one more
\* when O is to move; the difference is never anything else.
C13_MarksAlternate ==
    /\ Lead(board.grid) \in {0, 1}
    /\ pc = "turn" /\ Current.symbol = "X" => Lead(board.grid) = 0
    /\ pc = "turn" /\ Current.symbol = "O" => Lead(board.grid) = 1

\* O to move in the second game of the run, X one mark ahead
C13_Witness ==
    /\ pc = "turn"
    /\ stats.games = 1
    /\ Current.symbol = "O"
    /\ NumOf(board.grid, "X") = 3
    /\ NumOf(board.grid, "O") = 2

\* C14: in every board state reachable in a game run by play_game at most one
\* symbol has a complete line: no state has a line of X and a line of O.
C14_OneWinnerAtMost ==
    ~(HasLine(board.grid, "X") /\ HasLine(board.grid, "O"))

\* a game won by O with its third mark, X having three marks and no line
C14_Witness ==
    /\ pc = "again"
    /\ player2.kind = "Human"
    /\ HasLine(board.grid, "O")
    /\ ~HasLine(board.grid, "X")
    /\ NumOf(board.grid, "X") = 3
    /\ check_winner(board) = "O"

\* The number of plies after which w has won, from a grid that is a forced win
\* of w with `mover` to move: w takes its fastest win, the other side the
\* defence that holds out longest.
RECURSIVE PliesToWin(_, _, _)
PliesToWin(grid, mover, w) ==
    IF HasLine(grid, w) THEN 0
    ELSE IF mover = w
    THEN 1 + SetMin({PliesToWin(With(grid, c, mover), Other(mover), w) :
                        c \in {e \in EmptyCells(grid) :
                                  Outcome(With(grid, e, mover), Other(mover), w) = 1}})
    ELSE 1 + SetMax({PliesToWin(With(grid, c, mover), Other(mover), w) :
                        c \in EmptyCells(grid)})

\* the searching symbol can force a win; every move of it loses
ForcedWin == PlayableSearch /\ Outcome(call.pre.grid, call.self.symbol, call.self.symbol) = 1
ForcedLoss == PlayableSearch /\ Outcome(call.pre.grid, call.self.symbol, call.self.symbol) = -1

\* C15: where the side to move can force a win, the move get_move returns
\* forces it in the smallest number of plies achievable against any defence;
\* where every move leads to a forced loss, the move returned maximises the
\* number of plies the opponent needs to win.
C15_FastestWinSlowestLoss ==
    /\ ForcedWin =>
          /\ IsMove(call.ret)
          /\ OutcomeAfter(call.pre.grid, call.ret, call.self.symbol) = 1
          /\ 1 + PliesToWin(With(call.pre.grid, call.ret, call.self.symbol),
                            Other(call.self.symbol), call.self.symbol)
                = PliesToWin(call.pre.grid, call.self.symbol, call.self.symbol)
    /\ ForcedLoss =>
          /\ IsMove(call.ret)
          /\ \A c \in EmptyCells(call.pre.grid) :
                PliesToWin(With(call.pre.grid, call.ret, call.self.symbol),
                           Other(call.self.symbol), Other(call.self.symbol))
                   >= PliesToWin(With(call.pre.grid, c, call.self.symbol),
                                 Other(call.self.symbol), Other(call.self.symbol))

\* a win in three plies is taken where an earlier cell of the scan wins in five
C15_Witness ==
    /\ ForcedWin
    /\ IsMove(call.ret)
    /\ PliesToWin(call.pre.grid, call.self.symbol, call.self.symbol) = 3
    /\ \E c \in EmptyCells(call.pre.grid) :
          /\ ScanIndex(c) < ScanIndex(call.ret)
          /\ OutcomeAfter(call.pre.grid, c, call.self.symbol) = 1
          /\ PliesToWin(With(call.pre.grid, c, call.self.symbol),
                        Other(call.self.symbol), call.self.symbol) = 4

\* The number of plies of the longest play from the grid with `mover` to move:
\* a play ends with the first complete line or with the full board.
RECURSIVE Longest(_, _)
Longest(grid, mover) ==
    IF AnyLine(grid) \/ EmptyCells(grid) = {} THEN 0
    ELSE 1 + SetMax({Longest(With(grid, c, mover), Other(mover)) : c \in EmptyCells(grid)})

\* an AIPlayer's get_move made its search on a playable board
SearchMade == PlayableSearch /\ call.self.kind = "AI"

\* C16: every call of get_move terminates: each recursive _minimax call is made
\* on a board with strictly fewer empty cells than its caller's, the depth
\* argument starts at 0 and grows by exactly 1 per ply, and never exceeds 8.
C16_SearchIsBounded ==
    /\ call.op = "get_move" =>
          /\ call.shrinks
          /\ call.deepest \in 0..8
    /\ SearchMade =>
          /\ call.deepest < NumEmpty(call.pre.grid)
          /\ call.deepest = Longest(call.pre.grid, call.self.symbol) - 1

\* the search from the empty board reaches depth 8, the ninth placement
C16_Witness ==
    /\ SearchMade
    /\ call.pre.grid = EmptyGrid
    /\ call.shrinks
    /\ call.deepest = 8

\* C17: in every run of play_game a player's get_move, AIPlayer.get_move in
\* particular, is only invoked on a board with at least one empty cell and no
\* completed line: the turn loop asks for no move once the game is over.
C17_MoveAskedOnPlayableBoard ==
    /\ pc = "turn" => Playable(board)
    /\ call.op = "get_move" => Playable(call.pre)

\* the AIPlayer was asked with two cells left and the game goes on
C17_Witness ==
    /\ pc = "turn"
    /\ call.op = "get_move"
    /\ call.self.kind = "AI"
    /\ NumEmpty(call.pre.grid) = 2
    /\ Playable(call.pre)
    /\ Playable(board)

\* C18: every game started by play_game, a second or later game of the run
\* included, begins with all nine cells empty and player1 (X) to move.
C18_GameStartsFresh ==
    [][pc # "turn" /\ pc' = "turn" =>
          /\ board'.grid = EmptyGrid
          /\ current_player' = "player1"
          /\ player1'.symbol = "X"]_vars

\* the second game has started; the last move of the first one filled the board
C18_Witness ==
    /\ pc = "turn"
    /\ stats.games = 1
    /\ call.op = "get_move"
    /\ NumEmpty(call.pre.grid) = 1
    /\ board.grid = EmptyGrid
    /\ current_player = "player1"

\* the number of marks on the board: the successful placements of the game
Marks == 9 - NumEmpty(board.grid)

\* what a step taken while a turn is pending does to the player to move
TurnStep ==
    pc = "turn" =>
        IF board' # board
        THEN /\ Marks' = Marks + 1
             /\ pc' = "turn" => current_player' # current_player
             /\ pc' = "again" => current_player' = current_player
        ELSE current_player' = current_player

\* C19: every game run by play_game reaches game-over after at most 9 and at
\* least 5 successful placements, provided each player eventually supplies a
\* valid move; once is_game_over reports True no further cell is placed in that
\* game; the player to move changes exactly once after each successful
\* placement that does not end the game and never after a rejected move.
C19_GameLength ==
    /\ (pc = "turn") ~> (pc = "again")
    /\ [](pc = "again" => Marks \in 5..9 /\ is_game_over(board)[1])
    /\ [](is_game_over(board)[1] => pc = "again")
    /\ [][pc = "again" => board' = board]_vars
    /\ [][TurnStep]_vars

\* the shortest game: X wins with its third mark
C19_Witness ==
    /\ pc = "again"
    /\ Marks = 5
    /\ HasLine(board.grid, "X")
    /\ current_player = "player1"
    /\ player1.kind = "AI" /\ player2.kind = "Human"

\* a step that ends a game
GameEnds == pc = "turn" /\ pc' = "again"

\* the one counter that the result of the finished game raises
CountedOnce ==
    /\ stats'.games = stats.games + 1
    /\ stats'.x_wins = stats.x_wins + (IF HasLine(board'.grid, "X") THEN 1 ELSE 0)
    /\ stats'.o_wins = stats.o_wins + (IF HasLine(board'.grid, "O") THEN 1 ELSE 0)
    /\ stats'.draws = stats.draws + (IF AnyLine(board'.grid) THEN 0 ELSE 1)

\* C20: from the default record (all counters 0), after any sequence of
\* finished games games = x_wins + o_wins + draws: each finished game calls
\* update exactly once, which adds 1 to games and 1 to exactly one of x_wins,
\* o_wins, draws according to the result, and no counter ever decreases.
C20_StatisticsAddUp ==
    /\ [](stats.games = stats.x_wins + stats.o_wins + stats.draws)
    /\ [][GameEnds => CountedOnce]_vars
    /\ [][~GameEnds => stats' = stats]_vars

\* two finished games, one won by X and one drawn
C20_Witness ==
    /\ pc = "again"
    /\ stats = [games |-> 2, x_wins |-> 1, o_wins |-> 0, draws |-> 1]

=============================================================================
